---- MODULE Spec2Model ----
(***************************************************************************)
(* A model of ts-telnet2 (src/src/index.ts, src/src/gmcp.ts).              *)
(*                                                                         *)
(* src/src/index.ts holds two revisions of the library one after the       *)
(* other.  Lines 1-594 are the revision without responders (do/dont/will/  *)
(* wont return void, splitIAC pushes the trailing slice, writeIAC is three *)
(* bytes); its Socket is modelled by the variables wire0 .. written and    *)
(* the specification SpecFramer.  Lines 596-1227 are the revision with     *)
(* responders (do/dont/will/wont return promises); its Socket is modelled, *)
(* for two connected endpoints, by the variables sock .. closed and the    *)
(* specification SpecNegotiation.  Definitions of the second revision that *)
(* share a name with the first carry the suffix R.  The specification      *)
(* SpecGMCP applies the first revision's writeGMCP and the codec functions *)
(* of gmcp.ts to structured messages (variables sent, trips, decodes).     *)
(* SpecExchange is SpecNegotiation with one requesting endpoint and one    *)
(* capability, and SpecResend connects two Sockets of the first revision,  *)
(* held in the variables sock and net.                                     *)
(*                                                                         *)
(* Bytes are integers 0..255, buffers are sequences of bytes, JavaScript   *)
(* strings are sequences of code points, and the JavaScript value          *)
(* undefined is Undefined.                                                 *)
(***************************************************************************)
EXTENDS Integers, Sequences, FiniteSets, TLC

\* ------------------------------------------------------------------------
\* enum Negotiation, enum Options
\* ------------------------------------------------------------------------
IAC == 255
WILL == 251
WONT == 252
DO == 253
DONT == 254
SB == 250
SE == 240
BINARY_TRANSMISSION == 0
ECHO == 1
GMCP == 201
EXTENDED_OPTIONS_LIST == 255

LF == 10
CR == 13
SPACE == 32

NegCmds == {WILL, WONT, DO, DONT}

\* ------------------------------------------------------------------------
\* JavaScript values and Buffer primitives
\* ------------------------------------------------------------------------
Undefined == -1

\* buffer[i], 0-based; undefined outside the buffer
At(b, i) == IF i >= 0 /\ i < Len(b) THEN b[i + 1] ELSE Undefined

\* Buffer.prototype.slice(start, end): negative offsets count from the end,
\* both are clamped to the buffer, an empty range gives the empty buffer
ClampIdx(n, len) ==
    IF n < 0 THEN (IF n + len < 0 THEN 0 ELSE n + len)
    ELSE IF n > len THEN len ELSE n

slice(b, start, end) ==
    LET s == ClampIdx(start, Len(b))
        e == ClampIdx(end, Len(b))
    IN  IF e <= s THEN << >> ELSE SubSeq(b, s + 1, e)

\* Buffer.from(string): the UTF-8 encoding of the string's code points
RECURSIVE BufferFrom(_)
BufferFrom(str) ==
    IF str = << >> THEN << >>
    ELSE LET cp == Head(str)
             enc == IF cp < 128 THEN <<cp>>
                    ELSE IF cp < 2048
                         THEN <<192 + (cp \div 64), 128 + (cp % 64)>>
                         ELSE <<224 + (cp \div 4096),
                                128 + ((cp \div 64) % 64),
                                128 + (cp % 64)>>
         IN  enc \o BufferFrom(Tail(str))

\* buffer.toString("ascii"): the high bit of every byte is cleared
RECURSIVE toStringAscii(_)
toStringAscii(b) ==
    IF b = << >> THEN << >>
    ELSE <<Head(b) % 128>> \o toStringAscii(Tail(b))

\* buffer.toString("utf8"): a byte below 128 is itself, a two-byte sequence
\* (lead 194..223, continuation 128..191) is its code point, and every
\* other byte that does not begin a well-formed sequence is U+FFFD.  The
\* byte alphabets of the model hold no continuation byte, so longer
\* sequences never arise.
REPLACEMENT == 65533

RECURSIVE toStringUtf8(_)
toStringUtf8(b) ==
    IF b = << >> THEN << >>
    ELSE LET x == Head(b)
             y == At(b, 1)
         IN  IF x < 128 THEN <<x>> \o toStringUtf8(Tail(b))
             ELSE IF x >= 194 /\ x <= 223 /\ y >= 128 /\ y <= 191
                  THEN <<(x - 192) * 64 + (y - 128)>>
                       \o toStringUtf8(Tail(Tail(b)))
                  ELSE <<REPLACEMENT>> \o toStringUtf8(Tail(b))

\* ------------------------------------------------------------------------
\* namespace Util, first revision
\* ------------------------------------------------------------------------
writeIAC(negotiate, option) == <<IAC, negotiate, option>>

\* the loop of writeSB: every byte 255 of d is pushed twice
RECURSIVE fin(_)
fin(d) ==
    IF d = << >> THEN << >>
    ELSE (IF Head(d) = 255 THEN <<255, 255>> ELSE <<Head(d)>>)
         \o fin(Tail(d))

\* a writeSB that ends the frame with a line feed
writeSBNewline(option, data) ==
    <<IAC, SB, option>> \o fin(BufferFrom(data)) \o <<IAC, SE, LF>>

writeSB(option, data) ==
    <<IAC, SB, option>> \o fin(BufferFrom(data)) \o <<IAC, SE>>

isEOL(buffer) == At(buffer, Len(buffer) - 1) = LF

\* a stripEOL that strips the last byte only
stripEOLOneByte(buffer) == slice(buffer, 0, Len(buffer) - 1)

stripEOL(buffer) ==
    IF At(buffer, Len(buffer) - 2) = CR
    THEN slice(buffer, 0, Len(buffer) - 2)
    ELSE slice(buffer, 0, Len(buffer) - 1)

\* parseSB returns {option, data}
parseSB(buffer) ==
    [option |-> At(buffer, 2),
     data   |-> slice(buffer, 3, Len(buffer) - 2)]

\* the for loop of splitIAC from index i on, with the slices found so far
\* (res) and the start of the current slice (temp); returns [res, temp]
RECURSIVE splitLoop(_, _, _, _)
splitLoop(buffer, i, temp, res) ==
    IF i >= Len(buffer) THEN [res |-> res, temp |-> temp]
    ELSE LET byte == At(buffer, i)
         IN  IF byte = IAC
             THEN IF /\ At(buffer, i - 1) # IAC
                     /\ At(buffer, i + 1) # IAC
                     /\ At(buffer, i + 1) # SE
                     /\ temp # i
                  THEN splitLoop(buffer, i + 1, i,
                                 Append(res, slice(buffer, temp, i)))
                  ELSE splitLoop(buffer, i + 1, temp, res)
             ELSE IF byte = SE /\ At(buffer, i - 1) = IAC
                  THEN splitLoop(buffer, i + 1, i + 1,
                                 Append(res, slice(buffer, temp, i + 1)))
                  ELSE splitLoop(buffer, i + 1, temp, res)

\* a splitIAC that drops the rest of the buffer after the last slice
splitIACNoRest(buffer) == splitLoop(buffer, 0, 0, << >>).res

\* first revision: the rest of the buffer is pushed as a last slice
splitIAC(buffer) ==
    LET r == splitLoop(buffer, 0, 0, << >>)
    IN  Append(r.res, slice(buffer, r.temp, Len(buffer)))

\* the bytes of several buffers one after the other
RECURSIVE Concat(_)
Concat(chunks) ==
    IF chunks = << >> THEN << >> ELSE Head(chunks) \o Concat(Tail(chunks))

\* ------------------------------------------------------------------------
\* src/src/gmcp.ts
\* ------------------------------------------------------------------------
\* String.prototype.indexOf(" "), 0-based, -1 when there is none
RECURSIVE indexOfFrom(_, _, _)
indexOfFrom(str, ch, i) ==
    IF i >= Len(str) THEN -1
    ELSE IF str[i + 1] = ch THEN i
    ELSE indexOfFrom(str, ch, i + 1)

\* the offset of the last occurrence of ch in str, -1 when there is none
indexOfLast(str, ch) ==
    IF \E k \in 1..Len(str) : str[k] = ch
    THEN (CHOOSE k \in 1..Len(str) :
             str[k] = ch /\ \A j \in (k + 1)..Len(str) : str[j] # ch) - 1
    ELSE -1

indexOf(str, ch) == indexOfFrom(str, ch, 0)

\* String.prototype.substring(start, end) for 0 <= start, end
substring(str, start, end) == slice(str, start, end)

\* The JSON values of the model: the natural numbers and the empty object.
\* JSONUndefined is what a failed JSON.parse leaves (it throws).
JSONNumber(n) == [type |-> "number", num |-> n]
EmptyObject == [type |-> "object", num |-> 0]
JSONUndefined == [type |-> "undefined", num |-> 0]

\* JSON.parse, for the JSON texts that the byte alphabets of the model can
\* spell: white space around one value that is either a number written
\* with the digit 1 only or the empty object, with or without white space
\* between its braces.  Every other text makes JSON.parse throw.
DIGIT_ZERO == 48
DIGIT_ONE == 49
LBRACE == 123
RBRACE == 125
TAB == 9

JSONWhite == {SPACE, TAB, LF, CR}

RECURSIVE trimLeft(_)
trimLeft(str) ==
    IF str # << >> /\ Head(str) \in JSONWhite THEN trimLeft(Tail(str))
    ELSE str

RECURSIVE trimRight(_)
trimRight(str) ==
    IF str # << >> /\ str[Len(str)] \in JSONWhite
    THEN trimRight(SubSeq(str, 1, Len(str) - 1))
    ELSE str

\* the number a run of decimal digits stands for
RECURSIVE DecimalValue(_)
DecimalValue(digits) ==
    IF digits = << >> THEN 0
    ELSE 10 * DecimalValue(SubSeq(digits, 1, Len(digits) - 1))
         + (digits[Len(digits)] - DIGIT_ZERO)

JSONParse(text) ==
    LET t == trimRight(trimLeft(text))
    IN  IF t # << >> /\ \A k \in 1..Len(t) : t[k] = DIGIT_ONE
        THEN [ok |-> TRUE, value |-> JSONNumber(DecimalValue(t))]
        ELSE IF /\ Len(t) >= 2
                /\ t[1] = LBRACE
                /\ t[Len(t)] = RBRACE
                /\ \A k \in 2..(Len(t) - 1) : t[k] \in JSONWhite
             THEN [ok |-> TRUE, value |-> EmptyObject]
             ELSE [ok |-> FALSE, value |-> JSONUndefined]

\* the decimal digits of a natural number
RECURSIVE Decimal(_)
Decimal(n) ==
    IF n < 10 THEN <<DIGIT_ZERO + n>>
    ELSE Decimal(n \div 10) \o <<DIGIT_ZERO + (n % 10)>>

\* JSON.stringify, on the values of the model
JSONStringify(v) ==
    IF v.type = "number" THEN Decimal(v.num) ELSE <<LBRACE, RBRACE>>

\* parseGMCP returns {package, data}; ok = FALSE stands for the exception
\* that JSON.parse throws through it
parseGMCP(data) ==
    LET dstr == toStringUtf8(data)
        offset == indexOf(dstr, SPACE)
    IN  IF offset > -1
        THEN LET pack == substring(dstr, 0, offset)
                 json == substring(dstr, offset + 1, Len(dstr))
                 obj == JSONParse(json)
             IN  [ok |-> obj.ok, package |-> pack, data |-> obj.value]
        ELSE [ok |-> TRUE, package |-> dstr, data |-> EmptyObject]

\* ------------------------------------------------------------------------
\* Bounds and input sets
\* ------------------------------------------------------------------------
\* longest arbitrary inbound byte stream
MaxStream == 4
\* most chunks ("data" callbacks) one stream is delivered in
MaxFeeds == 3
\* longest sub-negotiation payload string of the structured streams
MaxPayload == 2

\* all sequences over S of length at most n
RECURSIVE SeqsUpTo(_, _)
SeqsUpTo(S, n) ==
    IF n = 0 THEN {<< >>}
    ELSE LET shorter == SeqsUpTo(S, n - 1)
         IN  shorter \cup {Append(q, x) : q \in shorter, x \in S}

\* bytes of the arbitrary streams: the introducer, a sub-negotiation
\* opener and closer, one command, the line terminators and a letter
LETTER_A == 65
Alphabet == {IAC, SB, SE, DO, LF, CR, LETTER_A}

\* capabilities of the structured streams, the escape value and the
\* sub-negotiation-end value among them
CapSample == {ECHO, GMCP, SE, IAC}

\* code points of sub-negotiation payload strings
PayloadChars == {LETTER_A, SPACE, DIGIT_ONE, 255}

ArbStreams == SeqsUpTo(Alphabet, MaxStream)
IACStreams == {writeIAC(cmd, c) : cmd \in NegCmds, c \in 0..255}
PayloadStrings == SeqsUpTo(PayloadChars, MaxPayload)
SBStreams == {writeSB(cap, p) : cap \in CapSample, p \in PayloadStrings}

\* one sub-negotiation frame for every value of the capability byte
CapStreams == {writeSB(cap, <<LETTER_A>>) : cap \in 0..255}

\* most frames of a stream made of whole frames
MaxFrames == 2

\* frames of the streams made of several frames: two negotiation frames
\* and two sub-negotiation frames
FrameSample ==
    {writeIAC(DO, ECHO), writeIAC(WILL, GMCP),
     writeSB(GMCP, <<LETTER_A>>), writeSB(ECHO, << >>)}

\* sequences of two or more frames, and the streams they spell
FrameSeqs == {fs \in SeqsUpTo(FrameSample, MaxFrames) : Len(fs) >= 2}
FrameStreams == {Concat(fs) : fs \in FrameSeqs}

InputStreams ==
    ArbStreams \cup IACStreams \cup SBStreams \cup CapStreams \cup FrameStreams

\* ------------------------------------------------------------------------
\* class Socket, first revision (index.ts 273-570)
\* ------------------------------------------------------------------------
\* An OptionMatrix<boolean> over the keys the model tracks: a key is
\* absent, or holds true, false or undefined.
OptKeys == {BINARY_TRANSMISSION, GMCP}
OptValues == {"absent", "true", "false", "undefined"}
Truthy(v) == v = "true"

NoOptions == [k \in OptKeys |-> "absent"]

\* the option matrices a Socket is constructed with
InitOptions ==
    {NoOptions,
     [NoOptions EXCEPT ![GMCP] = "true", ![BINARY_TRANSMISSION] = "false"],
     [NoOptions EXCEPT ![BINARY_TRANSMISSION] = "true"]}

VARIABLES
    wire0,      \* the bytes the peer sends in all (never changes)
    rest,       \* the bytes of wire0 not yet delivered
    cuts,       \* the lengths of the chunks delivered so far
    buffer,     \* Socket.buffer, the accumulator
    options,    \* Socket.options
    events,     \* every event the Socket has emitted, in order
    written     \* every byte the Socket has written to the transport

framerVars == <<wire0, rest, cuts, buffer, options, events, written>>

\* the state of the two connected second-revision Sockets
VARIABLES
    sock,       \* per endpoint: options, buffer, responders of its Socket
    calls,      \* per endpoint: the do/dont/will/wont calls made that were
                \* no response, with the state of the promise each returned
    net,        \* per endpoint: the chunks written by the peer, not yet
                \* delivered
    emitted,    \* per endpoint: the events raised by the last step
    ncalls,     \* per endpoint: calls the application made of its own accord
    closed      \* the connection has closed

negVars == <<sock, calls, net, emitted, ncalls, closed>>

\* structured messages written and decoded
VARIABLES
    sent,       \* the (package, data) of every writeGMCP call and what the
                \* call returned, in order
    trips,      \* every message taken through writeSB, parseSB, parseGMCP,
                \* with what came back
    decodes     \* every payload handed to parseGMCP, with what came back

gmcpVars == <<sent, trips, decodes>>

vars == <<wire0, rest, cuts, buffer, options, events, written,
          sock, calls, net, emitted, ncalls, closed,
          sent, trips, decodes>>

\* an emitted event: its name and arguments (those it lacks are Undefined
\* or empty)
Ev(ev, option, data, package) ==
    [ev |-> ev, option |-> option, data |-> data, package |-> package]

\* the body of the for loop over the slices of splitIAC (index.ts 306-356),
\* without the clearing of the accumulator: the events one slice raises
DispatchSlice(buf, opts) ==
    <<Ev("data", Undefined, buf, << >>)>> \o
    (CASE At(buf, 1) = DO -> <<Ev("do", At(buf, 2), << >>, << >>)>>
       [] At(buf, 1) = DONT -> <<Ev("dont", At(buf, 2), << >>, << >>)>>
       [] At(buf, 1) = WILL -> <<Ev("will", At(buf, 2), << >>, << >>)>>
       [] At(buf, 1) = WONT -> <<Ev("wont", At(buf, 2), << >>, << >>)>>
       [] At(buf, 1) = SB ->
            IF /\ At(buf, Len(buf) - 2) = IAC
               /\ At(buf, Len(buf) - 1) = SE
            THEN LET parse == parseSB(buf)
                     gmcp == parseGMCP(parse.data)
                 IN  <<Ev("subnegotiation", parse.option, parse.data, << >>)>>
                     \o (IF Truthy(opts[GMCP]) /\ parse.option = GMCP /\ gmcp.ok
                         THEN <<Ev("gmcp", Undefined, gmcp.data, gmcp.package)>>
                         ELSE << >>)
            ELSE << >>
       [] OTHER -> << >>)

RECURSIVE DispatchAll(_, _)
DispatchAll(slices, opts) ==
    IF slices = << >> THEN << >>
    ELSE DispatchSlice(Head(slices), opts) \o DispatchAll(Tail(slices), opts)

\* a "data" handler that does not clear the accumulator after a line
FrameKeepLine(buf, opts) ==
    IF At(buf, 0) = IAC /\ At(buf, 1) # IAC
    THEN LET slices == splitIAC(buf)
         IN  [events |-> DispatchAll(slices, opts),
              buffer |-> IF slices = << >> THEN buf ELSE << >>]
    ELSE IF isEOL(buf)
         THEN LET line == stripEOL(buf)
              IN  [events |->
                     <<Ev("data", Undefined, line, << >>),
                       Ev("message", Undefined,
                          IF Truthy(opts[BINARY_TRANSMISSION])
                          THEN toStringUtf8(line)
                          ELSE toStringAscii(line),
                          << >>)>>,
                   buffer |-> buf]
         ELSE [events |-> << >>, buffer |-> buf]

\* a "data" handler that emits and drops what is no complete line
FrameFlushPartial(buf, opts) ==
    IF At(buf, 0) = IAC /\ At(buf, 1) # IAC
    THEN LET slices == splitIAC(buf)
         IN  [events |-> DispatchAll(slices, opts),
              buffer |-> IF slices = << >> THEN buf ELSE << >>]
    ELSE IF isEOL(buf)
         THEN LET line == stripEOL(buf)
              IN  [events |->
                     <<Ev("data", Undefined, line, << >>),
                       Ev("message", Undefined,
                          IF Truthy(opts[BINARY_TRANSMISSION])
                          THEN toStringUtf8(line)
                          ELSE toStringAscii(line),
                          << >>)>>,
                   buffer |-> << >>]
         ELSE [events |-> <<Ev("data", Undefined, buf, << >>)>>,
               buffer |-> << >>]

\* a "data" handler that looks for the end of a line before it looks for a
\* command introducer
FrameLineBeforeCommand(buf, opts) ==
    IF At(buf, 0) = IAC /\ At(buf, 1) # IAC /\ ~isEOL(buf)
    THEN LET slices == splitIAC(buf)
         IN  [events |-> DispatchAll(slices, opts),
              buffer |-> IF slices = << >> THEN buf ELSE << >>]
    ELSE IF isEOL(buf)
         THEN LET line == stripEOL(buf)
              IN  [events |->
                     <<Ev("data", Undefined, line, << >>),
                       Ev("message", Undefined,
                          IF Truthy(opts[BINARY_TRANSMISSION])
                          THEN toStringUtf8(line)
                          ELSE toStringAscii(line),
                          << >>)>>,
                   buffer |-> << >>]
         ELSE [events |-> << >>, buffer |-> buf]

\* a "data" handler that does not clear the accumulator after the frames
FrameKeepCommand(buf, opts) ==
    IF At(buf, 0) = IAC /\ At(buf, 1) # IAC
    THEN LET slices == splitIAC(buf)
         IN  [events |-> DispatchAll(slices, opts),
              buffer |-> buf]
    ELSE IF isEOL(buf)
         THEN LET line == stripEOL(buf)
              IN  [events |->
                     <<Ev("data", Undefined, line, << >>),
                       Ev("message", Undefined,
                          IF Truthy(opts[BINARY_TRANSMISSION])
                          THEN toStringUtf8(line)
                          ELSE toStringAscii(line),
                          << >>)>>,
                   buffer |-> << >>]
         ELSE [events |-> << >>, buffer |-> buf]

\* the framing part of the "data" handler (index.ts 299-371) on the
\* accumulator buf = this.buffer after the push: the events raised and the
\* accumulator left
Frame(buf, opts) ==
    IF At(buf, 0) = IAC /\ At(buf, 1) # IAC
    THEN LET slices == splitIAC(buf)
         IN  [events |-> DispatchAll(slices, opts),
              buffer |-> IF slices = << >> THEN buf ELSE << >>]
    ELSE IF isEOL(buf)
         THEN LET line == stripEOL(buf)
              IN  [events |->
                     <<Ev("data", Undefined, line, << >>),
                       Ev("message", Undefined,
                          IF Truthy(opts[BINARY_TRANSMISSION])
                          THEN toStringUtf8(line)
                          ELSE toStringAscii(line),
                          << >>)>>,
                   buffer |-> << >>]
         ELSE [events |-> << >>, buffer |-> buf]

\* the keys of an option matrix in the order of Object.keys (ascending)
RECURSIVE KeysAscending(_)
KeysAscending(K) ==
    IF K = {} THEN << >>
    ELSE LET m == CHOOSE x \in K : \A y \in K : x <= y
         IN  <<m>> \o KeysAscending(K \ {m})

ObjectKeys(opts) == KeysAscending({k \in OptKeys : opts[k] # "absent"})

\* the loop that ends the "data" handler (index.ts 372-381): do(key) for a
\* key that holds true, dont(key) for every other key; do and dont
\* (index.ts 453-464) set the option and write the command
RECURSIVE Resend(_, _, _)
Resend(keys, opts, out) ==
    IF keys = << >> THEN [options |-> opts, written |-> out]
    ELSE LET key == Head(keys)
         IN  IF Truthy(opts[key])
             THEN Resend(Tail(keys), [opts EXCEPT ![key] = "true"],
                         out \o writeIAC(DO, key))
             ELSE Resend(Tail(keys), [opts EXCEPT ![key] = "undefined"],
                         out \o writeIAC(DONT, key))

FramerStart ==
    /\ wire0 \in InputStreams
    /\ rest = wire0
    /\ cuts = << >>
    /\ buffer = << >>
    /\ options \in InitOptions
    /\ events = << >>
    /\ written = << >>

\* socket.on("data", ...) (index.ts 298-382) with a chunk of the next n
\* bytes of the stream
Feed(n) ==
    /\ Len(cuts) < MaxFeeds
    /\ LET data == SubSeq(rest, 1, n)
           f == Frame(buffer \o data, options)
           r == Resend(ObjectKeys(options), options, written)
       IN  /\ rest' = SubSeq(rest, n + 1, Len(rest))
           /\ cuts' = Append(cuts, n)
           /\ buffer' = f.buffer
           /\ events' = events \o f.events
           /\ options' = r.options
           /\ written' = r.written
    /\ UNCHANGED wire0
    /\ UNCHANGED <<sock, calls, net, emitted, ncalls, closed>>
    /\ UNCHANGED gmcpVars



\* ------------------------------------------------------------------------
\* Observations on the events of the first-revision Socket
\* ------------------------------------------------------------------------
\* the texts of the "message" events, in order
Messages(evs) ==
    LET m == SelectSeq(evs, LAMBDA e : e.ev = "message")
    IN  [k \in 1..Len(m) |-> m[k].data]

NegNames == {"do", "dont", "will", "wont"}

CmdName(cmd) ==
    CASE cmd = DO -> "do" [] cmd = DONT -> "dont"
      [] cmd = WILL -> "will" [] cmd = WONT -> "wont"

\* the negotiation events as <<name, capability>>, in order
Negotiations(evs) ==
    LET m == SelectSeq(evs, LAMBDA e : e.ev \in NegNames)
    IN  [k \in 1..Len(m) |-> <<m[k].ev, m[k].option>>]

\* the "subnegotiation" events as <<capability, payload>>, in order
Subnegotiations(evs) ==
    LET m == SelectSeq(evs, LAMBDA e : e.ev = "subnegotiation")
    IN  [k \in 1..Len(m) |-> <<m[k].option, m[k].data>>]

\* the bytes delivered so far
Fed == SubSeq(wire0, 1, Len(wire0) - Len(rest))

IsPrefix(p, s) == Len(p) <= Len(s) /\ SubSeq(s, 1, Len(p)) = p

Drop(s, n) == SubSeq(s, n + 1, Len(s))

\* the raw slices behind the "data" events evs, each line with a
\* terminator LF or CR LF put back, followed by the accumulator acc, spell
\* exactly the bytes of stream
RECURSIVE Accounts(_, _, _)
Accounts(evs, acc, stream) ==
    IF evs = << >> THEN stream = acc
    ELSE LET e == Head(evs)
         IN  IF e.ev # "data" THEN Accounts(Tail(evs), acc, stream)
             ELSE IF Len(evs) >= 2 /\ evs[2].ev = "message"
                  THEN \E term \in {<<LF>>, <<CR, LF>>} :
                          /\ IsPrefix(e.data \o term, stream)
                          /\ Accounts(Tail(evs), acc,
                                      Drop(stream, Len(e.data) + Len(term)))
                  ELSE /\ IsPrefix(e.data, stream)
                       /\ Accounts(Tail(evs), acc, Drop(stream, Len(e.data)))

\* a data line: no LF, first byte not 255
IsDataLine(L) ==
    /\ \A k \in 1..Len(L) : L[k] # LF
    /\ At(L, 0) # IAC

Terminators == {<<LF>>, <<CR, LF>>}

\* the stream less its last n bytes
LineOf(stream, n) == SubSeq(stream, 1, Len(stream) - n)

SevenBit(L) == \A k \in 1..Len(L) : L[k] < 128

\* the raw slices of the "data" events, in order
RawSlices(evs) ==
    LET m == SelectSeq(evs, LAMBDA e : e.ev = "data")
    IN  [k \in 1..Len(m) |-> m[k].data]

\* ------------------------------------------------------------------------
\* C6
\* ------------------------------------------------------------------------
\* C6 as stated: for every data line L (no LF, first byte not 255) followed
\* by LF or CR LF and delivered in two chunks to an empty accumulator,
\* exactly one message is raised in total, it carries L, and the
\* accumulator ends empty.
C6_AnyLineOneMessage ==
    \A term \in Terminators :
        LET L == LineOf(wire0, Len(term))
        IN  (/\ wire0 = L \o term
             /\ IsDataLine(L)
             /\ Len(cuts) = 2
             /\ rest = << >>)
                => (Messages(events) = <<L>> /\ buffer = << >>)

\* C6 (amended): for every data line L (no LF, first byte not 255) that
\* does not end with CR when the terminator is a bare LF, and every cut of
\* L plus terminator into two chunks: no message before the line is
\* complete, never a partial line and never two messages, and once both
\* chunks are in exactly one message and exactly one raw slice, the raw
\* slice being L, the message being the text of L (L itself when its bytes
\* are 7-bit), and an empty accumulator.
C6_LineOneMessage ==
    \A term \in Terminators :
        LET L == LineOf(wire0, Len(term))
            text == IF Truthy(options[BINARY_TRANSMISSION])
                    THEN toStringUtf8(L) ELSE toStringAscii(L)
        IN  (/\ wire0 = L \o term
             /\ IsDataLine(L)
             /\ (term = <<LF>> => At(L, Len(L) - 1) # CR)
             /\ Len(cuts) <= 2)
                => /\ Fed # wire0 => (events = << >> /\ buffer = Fed)
                   /\ Fed = wire0 =>
                        /\ Messages(events) = <<text>>
                        /\ SevenBit(L) => text = L
                        /\ RawSlices(events) = <<L>>
                        /\ buffer = << >>

\* C6 witness: the line "AA" CR LF cut inside the line, both chunks
\* delivered, one message "AA"
C6_Witness ==
    /\ wire0 = <<LETTER_A, LETTER_A, CR, LF>>
    /\ cuts = <<1, 3>>
    /\ Messages(events) = <<<<LETTER_A, LETTER_A>>>>
    /\ buffer = << >>

\* ------------------------------------------------------------------------
\* C7
\* ------------------------------------------------------------------------
\* capabilities other than the escape and sub-negotiation-end values
PlainCaps == {ECHO, GMCP}

\* C7: for every complete sub-negotiation frame delivered in three
\* non-empty chunks to an empty accumulator, no subnegotiation event is
\* raised before the third chunk and exactly one, carrying the capability
\* and the payload, is raised in total.
C7_SplitFrameOneEvent ==
    (/\ At(wire0, 1) = SB
     /\ \A k \in 1..Len(cuts) : cuts[k] >= 1)
        => \A cap \in PlainCaps, p \in PayloadStrings :
              wire0 = writeSB(cap, p)
                => /\ (Fed # wire0 => Subnegotiations(events) = << >>)
                   /\ (Len(cuts) = 3 /\ rest = << >>)
                        => Subnegotiations(events) =
                             <<<<cap, slice(wire0, 3, Len(wire0) - 2)>>>>

\* ------------------------------------------------------------------------
\* C8
\* ------------------------------------------------------------------------
\* C8: for every command and every capability 0..255, writeIAC gives the
\* three bytes 255, cmd, c, and delivering them as one chunk to an empty
\* accumulator raises exactly one negotiation event, carrying (cmd, c).
C8_NegotiationRoundTrip ==
    cuts = <<3>>
        => \A cmd \in NegCmds, c \in 0..255 :
              /\ writeIAC(cmd, c) = <<255, cmd, c>>
              /\ wire0 = writeIAC(cmd, c)
                   => Negotiations(events) = <<<<CmdName(cmd), c>>>>

\* ------------------------------------------------------------------------
\* C9
\* ------------------------------------------------------------------------
\* C9: for every capability and every payload p, the payload delivered in
\* the subnegotiation event for the frame writeSB(cap, p) is p.
C9_PayloadRoundTrip ==
    (At(wire0, 1) = SB /\ cuts = <<Len(wire0)>>)
        => \A cap \in PlainCaps, p \in PayloadStrings :
              wire0 = writeSB(cap, p)
                => Subnegotiations(events) = <<<<cap, p>>>>

\* ------------------------------------------------------------------------
\* C10
\* ------------------------------------------------------------------------
\* C10: after any sequence of chunks, the raw slices emitted so far (lines
\* with their stripped terminator) followed by the accumulator are exactly
\* the bytes delivered so far, in order.
C10_NoByteLostOrDuplicated == Accounts(events, buffer, Fed)

\* C10 witness: two chunks delivered, a frame and a line emitted in
\* different chunks
C10_Witness ==
    /\ wire0 = <<IAC, DO, LETTER_A, LF>>
    /\ cuts = <<2, 2>>
    /\ Len(events) = 4


\* ------------------------------------------------------------------------
\* C11
\* ------------------------------------------------------------------------
\* the negotiation and subnegotiation events as <<name, capability,
\* payload>>, in order
FrameEvents(evs) ==
    LET m == SelectSeq(evs, LAMBDA e : e.ev \in NegNames \cup {"subnegotiation"})
    IN  [k \in 1..Len(m) |-> <<m[k].ev, m[k].option, m[k].data>>]

\* the event a whole frame stands for
EventOfFrame(frame) ==
    IF frame[2] = SB
    THEN <<"subnegotiation", frame[3], slice(frame, 3, Len(frame) - 2)>>
    ELSE <<CmdName(frame[2]), frame[3], << >>>>

EventsOfFrames(fs) == [k \in 1..Len(fs) |-> EventOfFrame(fs[k])]

\* C11: for every stream made of negotiation and sub-negotiation frames,
\* delivered in any chunks, the frame events raised so far are the events
\* of the first frames of the stream in wire order (none before a
\* predecessor's), and once the whole stream is delivered they are the
\* events of all its frames (none skipped).
C11_FramesInWireOrder ==
    (At(wire0, 0) = IAC /\ Len(wire0) > 5)
        => \A fs \in FrameSeqs :
              wire0 = Concat(fs)
                => /\ IsPrefix(FrameEvents(events), EventsOfFrames(fs))
                   /\ rest = << >>
                        => FrameEvents(events) = EventsOfFrames(fs)

\* ------------------------------------------------------------------------
\* C15
\* ------------------------------------------------------------------------
\* the "gmcp" events among evs
GMCPEvents(evs) == SelectSeq(evs, LAMBDA e : e.ev = "gmcp")

\* C15: for every capability and payload, the sub-negotiation frame
\* writeSB(cap, p) received whole by an empty accumulator raises exactly
\* one 'subnegotiation' event, carrying cap and the frame's payload bytes;
\* and a 'gmcp' event is raised for it only if cap is GMCP and the GMCP
\* state is enabled.
C15_SubnegotiationRaised ==
    (At(wire0, 1) = SB /\ cuts = <<Len(wire0)>>)
        => \A cap \in CapSample, p \in PayloadStrings :
              wire0 = writeSB(cap, p)
                => /\ Subnegotiations(events) =
                        <<<<cap, slice(wire0, 3, Len(wire0) - 2)>>>>
                   /\ GMCPEvents(events) # << >>
                        => cap = GMCP /\ Truthy(options[GMCP])

\* ------------------------------------------------------------------------
\* C17
\* ------------------------------------------------------------------------
\* C17: for every capability and payload, when the chunks delivered so far
\* to an empty accumulator are the beginning of the frame writeSB(cap, p)
\* (at least 255, 250 and the capability) and its terminator has not
\* arrived, no event has been raised and the accumulator holds exactly the
\* bytes delivered; once the rest has arrived, exactly one subnegotiation
\* event has been raised, for the whole frame.
C17_PartialFrameKept ==
    (At(wire0, 1) = SB /\ Len(Fed) >= 3)
        => \A cap \in PlainCaps, p \in PayloadStrings :
              wire0 = writeSB(cap, p)
                => /\ Len(Fed) <= Len(wire0) - 2
                        => events = << >> /\ buffer = Fed
                   /\ rest = << >>
                        => Subnegotiations(events) =
                             <<<<cap, slice(wire0, 3, Len(wire0) - 2)>>>>

\* ------------------------------------------------------------------------
\* C21
\* ------------------------------------------------------------------------
\* C21: for every inbound stream that is exactly one complete sequence, a
\* negotiation frame 255, cmd, cap or a sub-negotiation frame written by
\* writeSB, splitIAC returns exactly one slice, the stream itself.
C21_OneSequenceOneSlice ==
    (wire0 \in IACStreams \cup SBStreams) => splitIAC(wire0) = <<wire0>>

\* ------------------------------------------------------------------------
\* C23
\* ------------------------------------------------------------------------
\* the chunk a step of the first-revision Socket received, and the
\* accumulator after the step has appended it
Chunk == SubSeq(rest, 1, Len(rest) - Len(rest'))
Appended == buffer \o Chunk

\* the events raised by the step
NewEvents == SubSeq(events', Len(events) + 1, Len(events'))

\* an accumulator that begins with a command introducer
BeginsWithCommand(acc) == At(acc, 0) = IAC /\ At(acc, 1) # IAC

\* C23: in every step that appends a chunk after which the accumulator
\* does not begin with a command introducer and ends with LF, the step
\* raises exactly one 'data' event (and one 'message' event, nothing else),
\* the 'data' event carries the accumulator without its last byte, and
\* without its last two bytes when the byte before the LF is CR, and the
\* accumulator is empty afterwards.
C23_LineEmittedStripped ==
    [][(/\ cuts' # cuts
        /\ ~BeginsWithCommand(Appended)
        /\ At(Appended, Len(Appended) - 1) = LF)
          => /\ Len(NewEvents) = 2
             /\ NewEvents[1].ev = "data"
             /\ NewEvents[1].data =
                   SubSeq(Appended, 1,
                          IF At(Appended, Len(Appended) - 2) = CR
                          THEN Len(Appended) - 2
                          ELSE Len(Appended) - 1)
             /\ NewEvents[2].ev = "message"
             /\ buffer' = << >>]_vars

\* C23 witness: the line 'A' CR LF arrived in two chunks, 'A' and then
\* CR LF; the second step raised the data frame 'A'.
C23_Witness ==
    /\ wire0 = <<LETTER_A, CR, LF>>
    /\ cuts = <<1, 2>>
    /\ RawSlices(events) = <<<<LETTER_A>>>>
    /\ buffer = << >>

\* ------------------------------------------------------------------------
\* C24
\* ------------------------------------------------------------------------
\* C24: in every step that appends a chunk, also an empty one, after which
\* the accumulator neither begins with a command introducer nor ends with
\* LF, no event is raised and the accumulator afterwards is what it was
\* followed by the chunk.
C24_IncompleteLineKept ==
    [][(/\ cuts' # cuts
        /\ ~BeginsWithCommand(Appended)
        /\ At(Appended, Len(Appended) - 1) # LF)
          => /\ events' = events
             /\ buffer' = Appended]_vars

\* C24 witness: 'A', an empty chunk and 'A' again were received; nothing
\* was raised and the accumulator holds both bytes.
C24_Witness ==
    /\ wire0 = <<LETTER_A, LETTER_A>>
    /\ cuts = <<1, 0, 1>>
    /\ events = << >>
    /\ buffer = <<LETTER_A, LETTER_A>>

\* ------------------------------------------------------------------------
\* C25
\* ------------------------------------------------------------------------
\* the two shapes of a slice the frame loop decodes
IsNegotiationFrame(s) ==
    /\ Len(s) = 3
    /\ s[1] = IAC
    /\ s[2] \in NegCmds

IsSubnegotiationFrame(s) ==
    /\ Len(s) >= 4
    /\ slice(s, 0, 2) = <<IAC, SB>>
    /\ slice(s, Len(s) - 2, Len(s)) = <<IAC, SE>>

\* C25 as stated: in every step whose accumulator, after the chunk is
\* appended, begins with a command introducer, every slice the command
\* path hands to the frame loop is a negotiation frame of exactly 3 bytes
\* or a sub-negotiation frame from 255,250 to 255,240.
C25_SlicesAreWholeFrames ==
    [][(/\ cuts' # cuts
        /\ BeginsWithCommand(Appended))
          => \A k \in 1..Len(RawSlices(NewEvents)) :
                \/ IsNegotiationFrame(RawSlices(NewEvents)[k])
                \/ IsSubnegotiationFrame(RawSlices(NewEvents)[k])]_vars

\* ------------------------------------------------------------------------
\* C26
\* ------------------------------------------------------------------------
\* C26 as stated: after every sequence of chunks, each negotiation event
\* raised ('do', 'dont', 'will', 'wont') carries a capability byte, never
\* undefined.
C26_NegotiationHasCapability ==
    \A k \in 1..Len(events) :
        events[k].ev \in NegNames => events[k].option # Undefined

\* ------------------------------------------------------------------------
\* C27
\* ------------------------------------------------------------------------
\* payload strings free of the bytes 255 and 240
PlainPayloads == SeqsUpTo(PayloadChars \ {IAC, SE}, MaxPayload)

\* C27 as stated: for every capability c in 0..255 and every payload free
\* of 255 and 240, when the frame writeSB(c, payload) has been received as
\* one chunk by an empty accumulator, exactly one subnegotiation event has
\* been raised, and it carries c and the payload.
C27_CapabilityByPosition ==
    (At(wire0, 1) = SB /\ cuts = <<Len(wire0)>>)
        => \A c \in 0..255, p \in PlainPayloads :
              wire0 = writeSB(c, p) => Subnegotiations(events) = <<<<c, p>>>>

\* ------------------------------------------------------------------------
\* C28
\* ------------------------------------------------------------------------
\* the line of the k-th event, a 'message' event: the bytes of the 'data'
\* event emitted just before it (index.ts 361-362)
LineBytes(evs, k) == IF k > 1 /\ evs[k - 1].ev = "data" THEN evs[k - 1].data ELSE << >>

\* C28 as stated: after every sequence of chunks, the line of every
\* message event raised has a first byte other than 255.
C28_LineNotEscape ==
    \A k \in 1..Len(events) :
        events[k].ev = "message" => At(LineBytes(events, k), 0) # IAC

\* C28 (amended): after every sequence of chunks, every message event
\* raised directly follows the 'data' event of its line, and the line does
\* not begin with a command introducer: its first byte is 255 only if its
\* second byte is 255 as well.
C28_LineNotCommand ==
    \A k \in 1..Len(events) :
        events[k].ev = "message"
            => /\ k > 1
               /\ events[k - 1].ev = "data"
               /\ ~BeginsWithCommand(events[k - 1].data)
               /\ At(events[k - 1].data, 0) = IAC
                    => At(events[k - 1].data, 1) = IAC

\* C28 witness: the line 255, 255 followed by LF was received in one chunk
\* and raised a message.
C28_Witness ==
    /\ wire0 = <<IAC, IAC, LF>>
    /\ cuts = <<3>>
    /\ RawSlices(events) = <<<<IAC, IAC>>>>
    /\ Len(Messages(events)) = 1

\* ------------------------------------------------------------------------
\* C32
\* ------------------------------------------------------------------------
\* the application events among evs: all but the raw 'data' events
AppEvents(evs) == SelectSeq(evs, LAMBDA e : e.ev # "data")

\* two sequences of events with the same names and contents
SameEvents(a, b) ==
    /\ Len(a) = Len(b)
    /\ \A k \in 1..Len(a) :
          /\ a[k].ev = b[k].ev
          /\ a[k].option = b[k].option
          /\ a[k].package = b[k].package
          /\ a[k].data = b[k].data

\* C32 as stated: once the whole stream has been fed, in whatever chunks,
\* the application events raised are those a connection in the same state
\* raises that receives the stream as one chunk.
C32_ChunkingIndependent ==
    (rest = << >>)
        => SameEvents(AppEvents(events), AppEvents(Frame(wire0, options).events))

\* ------------------------------------------------------------------------
\* C35
\* ------------------------------------------------------------------------
\* C35: after every chunk the accumulator is empty or holds an incomplete
\* data line: it does not end with LF, it does not begin with 255 followed
\* by a byte other than 255, and it is not the single byte 255.
C35_AccumulatorIncomplete ==
    \/ buffer = << >>
    \/ /\ At(buffer, Len(buffer) - 1) # LF
       /\ ~(At(buffer, 0) = IAC /\ At(buffer, 1) # IAC)
       /\ buffer # <<IAC>>

\* C35 witness: the chunk 255, 255, 'A' was received; it is kept as the
\* beginning of a line and nothing was raised.
C35_Witness ==
    /\ wire0 = <<IAC, IAC, LETTER_A>>
    /\ cuts = <<3>>
    /\ buffer = <<IAC, IAC, LETTER_A>>
    /\ events = << >>

\* ------------------------------------------------------------------------
\* namespace Util, second revision (index.ts 695-790)
\* ------------------------------------------------------------------------
writeIACR(negotiate, option) == <<IAC, negotiate, option, LF>>

writeSBR(option, data) ==
    <<IAC, SB, option>> \o fin(BufferFrom(data)) \o <<IAC, SE, LF>>

\* second revision: only the slices closed inside the loop are returned
splitIACR(buf) == splitLoop(buf, 0, 0, << >>).res

\* ------------------------------------------------------------------------
\* class Socket, second revision (index.ts 845-1203), two connected
\* endpoints
\* ------------------------------------------------------------------------
\* calls the application at endpoint A makes of its own accord
MaxCalls == 2
\* calls the application at endpoint B makes of its own accord (it also
\* answers in its listeners)
MaxPeerCalls == 1
\* most writes of the peer the transport delivers as one chunk
MaxCoalesce == 2

CallBudget(e) == IF e = "A" THEN MaxCalls ELSE MaxPeerCalls

Endpoints == {"A", "B"}
Peer(e) == IF e = "A" THEN "B" ELSE "A"

\* the capabilities the applications negotiate
Caps == {ECHO, GMCP}

\* this.responders[option]: the command the pending call sent and the call
\* (promise) its resolve belongs to; NoResponder is undefined
NoResponder == [neg |-> Undefined, call |-> 0]

\* the structured message the applications send: "A 1"
GMCPText == <<LETTER_A, SPACE, DIGIT_ONE>>

\* the text of gmcp("A A", 1), a package string with a space in it: the
\* receiver splits it at the first space and is left with "A 1", no JSON
GMCPBadText == <<LETTER_A, SPACE, LETTER_A, SPACE, DIGIT_ONE>>

GMCPTexts == {GMCPText, GMCPBadText}

\* what an application's listener does on a "do" / "dont" event
DoPolicies == {"none", "will", "wont"}
DontPolicies == {"none", "wont"}


\* this.options[option] and this.responders[option] for any key, also one
\* that is no capability of the model or is undefined
OptionOf(s, option) ==
    IF option \in Caps THEN s.options[option] ELSE "undefined"

ResponderOf(s, option) ==
    IF option \in Caps THEN s.responders[option] ELSE NoResponder

\* The state one handler or call works on: the Socket s, the endpoint's
\* calls cs, the chunks it writes out, and the events it raises ev.
Work(s, cs, out, ev) == [s |-> s, cs |-> cs, out |-> out, ev |-> ev]

Emit(w, e) == [w EXCEPT !.ev = Append(@, e)]
WriteOut(w, bytes) == [w EXCEPT !.out = Append(@, bytes)]
SetOption(w, option, v) == [w EXCEPT !.s.options[option] = v]

\* a setupResponder that registers over an entry already there
setupResponderOverwrite(w, neg, option) ==
    [w EXCEPT
        !.s.responders[option] = [neg |-> neg, call |-> Len(w.cs) + 1],
        !.cs = Append(@, [neg |-> neg, option |-> option,
                          response |-> FALSE, result |-> "pending"])]

\* a setupResponder that drops the pending entries of the other options
setupResponderClearsOthers(w, neg, option) ==
    LET id == Len(w.cs) + 1
    IN  IF w.s.responders[option] = NoResponder
        THEN [w EXCEPT
                !.s.responders = [c \in Caps |->
                                    IF c = option
                                    THEN [neg |-> neg, call |-> id]
                                    ELSE NoResponder],
                !.cs = Append(@, [neg |-> neg, option |-> option,
                                  response |-> FALSE, result |-> "pending"])]
        ELSE [w EXCEPT
                !.cs = Append(@, [neg |-> neg, option |-> option,
                                  response |-> FALSE, result |-> "rejected"])]

\* setupResponder (index.ts 1161-1202): the call's promise is appended to
\* the calls; it is pending with a responder registered when none was, and
\* rejected otherwise
setupResponder(w, neg, option) ==
    LET id == Len(w.cs) + 1
    IN  IF w.s.responders[option] = NoResponder
        THEN [w EXCEPT
                !.s.responders[option] = [neg |-> neg, call |-> id],
                !.cs = Append(@, [neg |-> neg, option |-> option,
                                  response |-> FALSE, result |-> "pending"])]
        ELSE [w EXCEPT
                !.cs = Append(@, [neg |-> neg, option |-> option,
                                  response |-> FALSE, result |-> "rejected"])]

\* a response call that takes the place of the pending call
NegotiateResponseClearsPending(w, neg, option, response) ==
    IF ~response
    THEN WriteOut(setupResponder(w, neg, option), writeIACR(neg, option))
    ELSE LET v == IF neg \in {DO, WILL} THEN "true" ELSE "undefined"
             w1 == [w EXCEPT !.s.responders[option] = NoResponder]
         IN  WriteOut(SetOption(w1, option, v), writeIACR(neg, option))

\* do / dont / will / wont that do not write the frame of a call whose
\* registration failed
NegotiateSuppressRejected(w, neg, option, response) ==
    IF ~response
    THEN IF w.s.responders[option] = NoResponder
         THEN WriteOut(setupResponder(w, neg, option), writeIACR(neg, option))
         ELSE setupResponder(w, neg, option)
    ELSE LET v == IF neg \in {DO, WILL} THEN "true" ELSE "undefined"
         IN  WriteOut(SetOption(w, option, v), writeIACR(neg, option))

\* do / dont / will / wont whose response call raises a notification
NegotiateResponseNotifies(w, neg, option, response) ==
    IF ~response
    THEN WriteOut(setupResponder(w, neg, option), writeIACR(neg, option))
    ELSE LET v == IF neg \in {DO, WILL} THEN "true" ELSE "undefined"
             w1 == Emit(SetOption(w, option, v),
                        Ev(IF neg \in {DO, WILL} THEN "enabled" ELSE "disabled",
                           option, << >>, << >>))
         IN  WriteOut(w1, writeIACR(neg, option))

\* do / dont / will / wont (index.ts 978-1051): a call that is no response
\* sets up the responder, writes the command and returns the responder's
\* promise; a response sets the option, writes the command and returns a
\* settled promise (true for do and will, false for dont and wont)
Negotiate(w, neg, option, response) ==
    IF ~response
    THEN WriteOut(setupResponder(w, neg, option), writeIACR(neg, option))
    ELSE LET v == IF neg \in {DO, WILL} THEN "true" ELSE "undefined"
         IN  WriteOut(SetOption(w, option, v), writeIACR(neg, option))

\* a responder closure that does not enable the option on WILL for a
\* pending DO
ResponderNoWillForDo(w, option, r, n) ==
    LET w1 == CASE n = DO /\ r.neg = WILL -> SetOption(w, option, "true")
                [] n = DONT /\ r.neg = WONT -> SetOption(w, option, "undefined")
                [] n = WONT /\ r.neg = DONT -> SetOption(w, option, "undefined")
                [] OTHER -> w
        on == Truthy(w1.s.options[option])
        w2 == Emit(w1, Ev(IF on THEN "enabled" ELSE "disabled",
                          option, << >>, << >>))
    IN  [w2 EXCEPT !.s.responders[option] = NoResponder,
                   !.cs[r.call].result = IF on THEN "true" ELSE "false"]

\* a responder closure that resolves with true whatever the state is
ResponderAlwaysTrue(w, option, r, n) ==
    LET w1 == CASE n = DO /\ r.neg = WILL -> SetOption(w, option, "true")
                [] n = DONT /\ r.neg = WONT -> SetOption(w, option, "undefined")
                [] n = WILL /\ r.neg = DO -> SetOption(w, option, "true")
                [] n = WONT /\ r.neg = DONT -> SetOption(w, option, "undefined")
                [] OTHER -> w
        on == Truthy(w1.s.options[option])
        w2 == Emit(w1, Ev(IF on THEN "enabled" ELSE "disabled",
                          option, << >>, << >>))
    IN  [w2 EXCEPT !.s.responders[option] = NoResponder,
                   !.cs[r.call].result = "true"]

\* a responder closure that leaves its pending entry in place
ResponderKeepsEntry(w, option, r, n) ==
    LET w1 == CASE n = DO /\ r.neg = WILL -> SetOption(w, option, "true")
                [] n = DONT /\ r.neg = WONT -> SetOption(w, option, "undefined")
                [] n = WILL /\ r.neg = DO -> SetOption(w, option, "true")
                [] n = WONT /\ r.neg = DONT -> SetOption(w, option, "undefined")
                [] OTHER -> w
        on == Truthy(w1.s.options[option])
        w2 == Emit(w1, Ev(IF on THEN "enabled" ELSE "disabled",
                          option, << >>, << >>))
    IN  [w2 EXCEPT !.cs[r.call].result = IF on THEN "true" ELSE "false"]

\* the responder closure (index.ts 1167-1197) of the pending call r on
\* option, called with the received command n
Responder(w, option, r, n) ==
    LET w1 == CASE n = DO /\ r.neg = WILL -> SetOption(w, option, "true")
                [] n = DONT /\ r.neg = WONT -> SetOption(w, option, "undefined")
                [] n = WILL /\ r.neg = DO -> SetOption(w, option, "true")
                [] n = WONT /\ r.neg = DONT -> SetOption(w, option, "undefined")
                [] OTHER -> w
        on == Truthy(w1.s.options[option])
        w2 == Emit(w1, Ev(IF on THEN "enabled" ELSE "disabled",
                          option, << >>, << >>))
    IN  [w2 EXCEPT !.s.responders[option] = NoResponder,
                   !.cs[r.call].result = IF on THEN "true" ELSE "false"]

\* the application's listener for a negotiation event (the "do" handlers
\* of the tests and examples): it may answer with a response call
Listener(w, name, option, pol) ==
    IF option \notin Caps THEN w
    ELSE CASE name = "do" /\ pol.do = "will" -> Negotiate(w, WILL, option, TRUE)
           [] name = "do" /\ pol.do = "wont" -> Negotiate(w, WONT, option, TRUE)
           [] name = "dont" /\ pol.dont = "wont" -> Negotiate(w, WONT, option, TRUE)
           [] OTHER -> w

\* a frame loop that raises the raw event only for a frame no pending call
\* was waiting for
DispatchSliceRRawIfUnanswered(w, buf, pol) ==
    LET w0 == Emit(w, Ev("data", Undefined, buf, << >>))
        option == At(buf, 2)
        responder == ResponderOf(w0.s, option)
        n == At(buf, 1)
    IN  IF n \in NegCmds
        THEN IF responder # NoResponder
             THEN Responder(w0, option, responder, n)
             ELSE Listener(Emit(w0, Ev(CmdName(n), option, << >>, << >>)),
                           CmdName(n), option, pol)
        ELSE IF /\ n = SB
                /\ At(buf, Len(buf) - 2) = IAC
                /\ At(buf, Len(buf) - 1) = SE
             THEN LET parse == parseSB(buf)
                      gmcp == parseGMCP(parse.data)
                      w1 == Emit(w0, Ev("subnegotiation", parse.option,
                                        parse.data, << >>))
                  IN  IF /\ Truthy(OptionOf(w1.s, GMCP))
                         /\ parse.option = GMCP
                         /\ gmcp.ok
                      THEN Emit(w1, Ev("gmcp", Undefined, gmcp.data,
                                       gmcp.package))
                      ELSE w1
             ELSE w0

\* a frame loop that reports a frame nobody was waiting for as a refusal
DispatchSliceRDisableUnanswered(w, buf, pol) ==
    LET w0 == Emit(w, Ev("data", Undefined, buf, << >>))
        option == At(buf, 2)
        responder == ResponderOf(w0.s, option)
        n == At(buf, 1)
    IN  IF n \in NegCmds
        THEN LET w1 == IF responder # NoResponder
                       THEN Responder(w0, option, responder, n)
                       ELSE Emit(w0, Ev("disabled", option, << >>, << >>))
                 w2 == Emit(w1, Ev(CmdName(n), option, << >>, << >>))
             IN  Listener(w2, CmdName(n), option, pol)
        ELSE IF /\ n = SB
                /\ At(buf, Len(buf) - 2) = IAC
                /\ At(buf, Len(buf) - 1) = SE
             THEN LET parse == parseSB(buf)
                      gmcp == parseGMCP(parse.data)
                      w1 == Emit(w0, Ev("subnegotiation", parse.option,
                                        parse.data, << >>))
                  IN  IF /\ Truthy(OptionOf(w1.s, GMCP))
                         /\ parse.option = GMCP
                         /\ gmcp.ok
                      THEN Emit(w1, Ev("gmcp", Undefined, gmcp.data,
                                       gmcp.package))
                      ELSE w1
             ELSE w0

\* the body of the for loop over the slices (index.ts 879-942) for one
\* slice buf
DispatchSliceR(w, buf, pol) ==
    LET w0 == Emit(w, Ev("data", Undefined, buf, << >>))
        option == At(buf, 2)
        responder == ResponderOf(w0.s, option)
        n == At(buf, 1)
    IN  IF n \in NegCmds
        THEN LET w1 == IF responder # NoResponder
                       THEN Responder(w0, option, responder, n)
                       ELSE w0
                 w2 == Emit(w1, Ev(CmdName(n), option, << >>, << >>))
             IN  Listener(w2, CmdName(n), option, pol)
        ELSE IF /\ n = SB
                /\ At(buf, Len(buf) - 2) = IAC
                /\ At(buf, Len(buf) - 1) = SE
             THEN LET parse == parseSB(buf)
                      gmcp == parseGMCP(parse.data)
                      w1 == Emit(w0, Ev("subnegotiation", parse.option,
                                        parse.data, << >>))
                  IN  IF /\ Truthy(OptionOf(w1.s, GMCP))
                         /\ parse.option = GMCP
                         /\ gmcp.ok
                      THEN Emit(w1, Ev("gmcp", Undefined, gmcp.data,
                                       gmcp.package))
                      ELSE w1
             ELSE w0

RECURSIVE DispatchAllR(_, _, _)
DispatchAllR(w, slices, pol) ==
    IF slices = << >> THEN w
    ELSE DispatchAllR(DispatchSliceR(w, Head(slices), pol), Tail(slices), pol)

\* the "data" handler (index.ts 871-955) for the chunk data
OnData(w, data, pol) ==
    LET buf == w.s.buffer \o data
    IN  IF At(buf, 0) = IAC /\ At(buf, 1) # IAC
        THEN LET slices == splitIACR(buf)
                 w1 == DispatchAllR(w, slices, pol)
             IN  [w1 EXCEPT !.s.buffer = IF slices = << >> THEN buf ELSE << >>]
        ELSE IF isEOL(buf)
             THEN LET line == stripEOL(buf)
                      w1 == Emit(w, Ev("data", Undefined, line, << >>))
                      w2 == Emit(w1, Ev("message", Undefined,
                                 IF Truthy(OptionOf(w.s, BINARY_TRANSMISSION))
                                 THEN toStringUtf8(line)
                                 ELSE toStringAscii(line), << >>))
                  IN  [w2 EXCEPT !.s.buffer = << >>]
             ELSE [w EXCEPT !.s.buffer = buf]

\* gmcp(packages, data) (index.ts 1057-1068)
gmcp(w, text) ==
    IF Truthy(OptionOf(w.s, GMCP))
    THEN WriteOut(w, writeSBR(GMCP, text))
    ELSE w

NewSocket ==
    [options |-> [c \in Caps |-> "undefined"],
     buffer |-> << >>,
     responders |-> [c \in Caps |-> NoResponder]]

NegotiationStart ==
    /\ sock = [e \in Endpoints |-> NewSocket]
    /\ calls = [e \in Endpoints |-> << >>]
    /\ net = [e \in Endpoints |-> << >>]
    /\ emitted = [e \in Endpoints |-> << >>]
    /\ ncalls = [e \in Endpoints |-> 0]
    /\ closed = FALSE

\* the step of endpoint e that ends in the work state w
Commit(e, w) ==
    /\ sock' = [sock EXCEPT ![e] = w.s]
    /\ calls' = [calls EXCEPT ![e] = w.cs]
    /\ emitted' = [x \in Endpoints |-> IF x = e THEN w.ev ELSE << >>]

Start(e) == Work(sock[e], calls[e], << >>, << >>)

\* the application at e calls do, dont, will or wont, having made fewer
\* than budget calls
CallWithin(budget, e, neg, option, response) ==
    /\ ~closed
    /\ ncalls[e] < budget
    /\ LET w == Negotiate(Start(e), neg, option, response)
       IN  /\ Commit(e, w)
           /\ net' = [net EXCEPT ![Peer(e)] = @ \o w.out]
    /\ ncalls' = [ncalls EXCEPT ![e] = @ + 1]
    /\ UNCHANGED closed
    /\ UNCHANGED framerVars
    /\ UNCHANGED gmcpVars

Call(e, neg, option, response) ==
    CallWithin(CallBudget(e), e, neg, option, response)

\* the application at e calls gmcp; text is what the call makes of its
\* package string and data
SendGMCP(e, text) ==
    /\ ~closed
    /\ ncalls[e] < CallBudget(e)
    /\ LET w == gmcp(Start(e), text)
       IN  /\ Commit(e, w)
           /\ net' = [net EXCEPT ![Peer(e)] = @ \o w.out]
    /\ ncalls' = [ncalls EXCEPT ![e] = @ + 1]
    /\ UNCHANGED closed
    /\ UNCHANGED framerVars
    /\ UNCHANGED gmcpVars

\* the transport delivers the first k chunks written by the peer as one
\* "data" callback at e; the listeners answer by the policy pol
Deliver(e, k, pol) ==
    /\ ~closed
    /\ k \in 1..Len(net[e])
    /\ LET w == OnData(Start(e), Concat(SubSeq(net[e], 1, k)), pol)
       IN  /\ Commit(e, w)
           /\ net' = [net EXCEPT ![e] = SubSeq(@, k + 1, Len(@)),
                                 ![Peer(e)] = @ \o w.out]
    /\ UNCHANGED <<ncalls, closed>>
    /\ UNCHANGED framerVars
    /\ UNCHANGED gmcpVars

\* the connection closes; the second-revision Socket registers no "close"
\* listener (index.ts 863-956), so nothing of it changes
Close ==
    /\ ~closed
    /\ closed' = TRUE
    /\ emitted' = [x \in Endpoints |-> << >>]
    /\ UNCHANGED <<sock, calls, net, ncalls>>
    /\ UNCHANGED framerVars
    /\ UNCHANGED gmcpVars

\* ------------------------------------------------------------------------
\* Structured messages: Socket.writeGMCP (index.ts 486-497), and the codec
\* functions applied one after the other as in util.test.ts
\* ------------------------------------------------------------------------
\* most messages written, taken through the round trip or decoded in a run
MaxMessages == 2
\* longest package string
MaxPackage == 2

DOT == 46

\* package strings: dotted paths, also with a character above 7 bits
PackageChars == {LETTER_A, DOT, 255}
Packages == SeqsUpTo(PackageChars, MaxPackage)

JSONValues == {JSONNumber(1), JSONNumber(11), EmptyObject}

\* JSON texts of the value v: what JSON.stringify writes, and the same with
\* white space that JSON allows
JSONTexts(v) ==
    LET t == JSONStringify(v)
    IN  {t, <<SPACE>> \o t, t \o <<SPACE>>}
        \cup (IF v = EmptyObject THEN {<<LBRACE, SPACE, RBRACE>>} ELSE {})

\* the payloads handed to parseGMCP
DecodeInputs == PayloadStrings \cup GMCPTexts

Applied == Len(sent) + Len(trips) + Len(decodes)

\* the option matrices of the Sockets that write structured messages: GMCP
\* absent, true, false or undefined
GMCPOptions ==
    InitOptions \cup {[NoOptions EXCEPT ![GMCP] = v] : v \in OptValues}

\* a writeGMCP that does not look at the GMCP option
writeGMCPUngated(opts, out, packages, data, flushed) ==
    [written |-> Append(out, writeSB(GMCP, packages \o <<SPACE>>
                                           \o JSONStringify(data))),
     returned |-> flushed]

\* writeGMCP(packages, data) (index.ts 486-497) on a Socket with the options
\* opts that has written out; flushed is what socket.write returns (it
\* depends on the transport's buffer)
writeGMCP(opts, out, packages, data, flushed) ==
    IF Truthy(opts[GMCP])
    THEN [written |-> Append(out, writeSB(GMCP, packages \o <<SPACE>>
                                                \o JSONStringify(data))),
          returned |-> flushed]
    ELSE [written |-> out, returned |-> FALSE]

\* the application calls writeGMCP(packages, data)
WriteGMCP(packages, data, flushed) ==
    /\ Applied < MaxMessages
    /\ LET r == writeGMCP(options, written, packages, data, flushed)
       IN  /\ sent' = Append(sent, [package |-> packages, data |-> data,
                                    returned |-> r.returned])
           /\ written' = r.written
    /\ UNCHANGED <<wire0, rest, cuts, buffer, options, events>>
    /\ UNCHANGED negVars
    /\ UNCHANGED <<trips, decodes>>

\* parseGMCP(Util.parseSB(Util.writeSB(Options.GMCP, text)).data) for the
\* text packages + " " + text of the value data (util.test.ts 6-12)
RoundTrip(packages, data, text) ==
    /\ Applied < MaxMessages
    /\ LET frame == writeSB(GMCP, packages \o <<SPACE>> \o text)
           result == parseGMCP(parseSB(frame).data)
       IN  trips' = Append(trips, [package |-> packages, data |-> data,
                                   text |-> text, result |-> result])
    /\ UNCHANGED framerVars
    /\ UNCHANGED negVars
    /\ UNCHANGED <<sent, decodes>>

\* parseGMCP(payload) (gmcp.ts 6-23)
Decode(payload) ==
    /\ Applied < MaxMessages
    /\ decodes' = Append(decodes, [payload |-> payload,
                                   result |-> parseGMCP(payload)])
    /\ UNCHANGED framerVars
    /\ UNCHANGED negVars
    /\ UNCHANGED <<sent, trips>>

\* ------------------------------------------------------------------------
\* Observations on the two connected Sockets
\* ------------------------------------------------------------------------
\* the names of the negotiation events for capability c among evs, in order
NegEventsFor(evs, c) ==
    LET m == SelectSeq(evs, LAMBDA x : x.ev \in NegNames /\ x.option = c)
    IN  [k \in 1..Len(m) |-> m[k].ev]

\* how many events name for capability c are among evs
Raised(evs, name, c) ==
    Cardinality({k \in 1..Len(evs) : evs[k].ev = name /\ evs[k].option = c})

\* the calls of endpoint e for capability c whose promise is not settled
PendingCalls(e, c) ==
    {k \in 1..Len(calls[e]) :
        calls[e][k].option = c /\ calls[e][k].result = "pending"}

\* the event names that answer a pending command
Counterpart(neg) ==
    IF neg \in {WILL, WONT} THEN {"do", "dont"} ELSE {"will", "wont"}

\* ------------------------------------------------------------------------
\* C1
\* ------------------------------------------------------------------------
\* C1: whenever A has a do(c) call pending and a delivery at A dispatches a
\* WILL c frame (and no other negotiation frame for c), then in that step
\* the pending call resolves to true, A's state for c becomes enabled, the
\* pending entry is cleared, and exactly one 'enabled' event and no
\* 'disabled' event for c is raised on A.
C1_DoAnsweredByWill ==
    [][\A c \in Caps :
         (/\ sock["A"].responders[c].neg = DO
          /\ NegEventsFor(emitted'["A"], c) = <<"will">>)
            => LET id == sock["A"].responders[c].call
               IN  /\ calls["A"][id].result = "pending"
                   /\ calls'["A"][id].result = "true"
                   /\ sock'["A"].options[c] = "true"
                   /\ sock'["A"].responders[c] = NoResponder
                   /\ Raised(emitted'["A"], "enabled", c) = 1
                   /\ Raised(emitted'["A"], "disabled", c) = 0]_vars

\* C1 witness: A's first call was do(GMCP) without asResponse; B's own call
\* was no response and was about ECHO, so the WILL GMCP that B sent and
\* B's enabled state for GMCP come from the will(GMCP, true) of its 'do'
\* listener; that WILL GMCP frame has just been dispatched on A, and A's
\* call has resolved to true.
C1_Witness ==
    /\ Len(calls["A"]) >= 1
    /\ calls["A"][1] = [neg |-> DO, option |-> GMCP, response |-> FALSE,
                        result |-> "true"]
    /\ Len(calls["B"]) = 1
    /\ calls["B"][1].option = ECHO
    /\ sock["B"].options[GMCP] = "true"
    /\ sock["A"].options[GMCP] = "true"
    /\ NegEventsFor(emitted["A"], GMCP) = <<"will">>
    /\ Raised(emitted["A"], "enabled", GMCP) = 1

\* ------------------------------------------------------------------------
\* C2
\* ------------------------------------------------------------------------
\* C2: at every endpoint and for every capability c, the unsettled calls
\* for c are exactly the one call the pending entry belongs to (none when
\* there is no entry), and the entry records that call's command; a call
\* without asResponse made while an entry for c exists is rejected and
\* leaves the entry and the first call as they were; and a pending call,
\* also one followed by a rejected call, is settled with a boolean when a
\* counterpart command for c is dispatched.
C2_OnePendingPerCapability ==
    [][\A e \in Endpoints, c \in Caps :
         LET r == sock[e].responders[c]
             r1 == sock'[e].responders[c]
             evs == NegEventsFor(emitted'[e], c)
         IN  /\ PendingCalls(e, c)' =
                   (IF r1 = NoResponder THEN {} ELSE {r1.call})
             /\ r1 # NoResponder => calls'[e][r1.call].neg = r1.neg
             /\ (/\ r # NoResponder
                 /\ Len(calls'[e]) = Len(calls[e]) + 1
                 /\ calls'[e][Len(calls'[e])].option = c)
                   => /\ calls'[e][Len(calls'[e])].result = "rejected"
                      /\ r1 = r
                      /\ SubSeq(calls'[e], 1, Len(calls[e])) = calls[e]
             /\ (/\ r # NoResponder
                 /\ evs # << >>
                 /\ evs[1] \in Counterpart(r.neg))
                   => /\ calls'[e][r.call].result \in {"true", "false"}
                      /\ r1 = NoResponder]_vars

\* C2 witness: A called do(GMCP), then a second time without asResponse
\* while the first was pending; the second call was rejected and the first
\* has resolved on B's WILL GMCP.
C2_Witness ==
    /\ Len(calls["A"]) = 2
    /\ calls["A"][1] = [neg |-> DO, option |-> GMCP, response |-> FALSE,
                        result |-> "true"]
    /\ calls["A"][2].option = GMCP
    /\ calls["A"][2].result = "rejected"
    /\ NegEventsFor(emitted["A"], GMCP) = <<"will">>

\* ------------------------------------------------------------------------
\* C3
\* ------------------------------------------------------------------------
\* C3: when an entry is pending for capability c and a step dispatches no
\* counterpart command for c (in particular when it dispatches only
\* non-counterpart commands for c), the entry stays in place, no 'enabled'
\* or 'disabled' event for c is raised, and the call stays unsettled.
C3_OnlyCounterpartResolves ==
    [][\A e \in Endpoints, c \in Caps :
         LET r == sock[e].responders[c]
             evs == NegEventsFor(emitted'[e], c)
         IN  (/\ r # NoResponder
              /\ \A k \in 1..Len(evs) : evs[k] \notin Counterpart(r.neg))
                => /\ sock'[e].responders[c] = r
                   /\ Raised(emitted'[e], "enabled", c) = 0
                   /\ Raised(emitted'[e], "disabled", c) = 0
                   /\ calls'[e][r.call].result = "pending"]_vars

\* ------------------------------------------------------------------------
\* C4
\* ------------------------------------------------------------------------
\* the replies that accept and the replies that refuse a pending command
Accepts(neg) ==
    CASE neg = DO -> {"will"} [] neg = WILL -> {"do"} [] OTHER -> {}

Refuses(neg) ==
    CASE neg = DO -> {"wont"} [] neg = WILL -> {"dont"}
      [] neg = DONT -> {"wont"} [] neg = WONT -> {"dont"}

\* C4: when an entry is pending for capability c and a step dispatches one
\* negotiation frame for c, a reply that accepts or refuses the pending
\* command, then the call resolves to true and one 'enabled' is raised on
\* acceptance, the call resolves to false and one 'disabled' is raised on
\* refusal, and (when the listeners of the step answer nothing) the state
\* of c after the step is enabled on acceptance and not enabled on
\* refusal, whatever the state of c was before.
C4_ReplyDecidesState ==
    [][\A e \in Endpoints, c \in Caps :
         LET r == sock[e].responders[c]
             evs == NegEventsFor(emitted'[e], c)
         IN  (/\ r # NoResponder
              /\ Len(evs) = 1
              /\ evs[1] \in Accepts(r.neg) \cup Refuses(r.neg))
                => LET accept == evs[1] \in Accepts(r.neg)
                   IN  /\ calls'[e][r.call].result =
                             (IF accept THEN "true" ELSE "false")
                       /\ Raised(emitted'[e], "enabled", c) =
                             (IF accept THEN 1 ELSE 0)
                       /\ Raised(emitted'[e], "disabled", c) =
                             (IF accept THEN 0 ELSE 1)
                       /\ net'[Peer(e)] = net[Peer(e)]
                            => Truthy(sock'[e].options[c]) = accept]_vars

\* ------------------------------------------------------------------------
\* C5
\* ------------------------------------------------------------------------
\* C5: once the connection has closed, no call is left unsettled and no
\* pending entry is left at either endpoint.  (Nothing happens at a Socket
\* after the close, so what is left at the close is left for ever.)
C5_ClosedLeavesNothingPending ==
    closed => \A e \in Endpoints, c \in Caps :
                 /\ sock[e].responders[c] = NoResponder
                 /\ PendingCalls(e, c) = {}

\* ------------------------------------------------------------------------
\* C12
\* ------------------------------------------------------------------------
\* the bytes the "data" callback of a step at e received: the chunks the
\* step took off the transport towards e
Delivered(e) == Concat(SubSeq(net[e], 1, Len(net[e]) - Len(net'[e])))

\* the negotiation frames among the slices the frame loop dispatches for
\* the accumulated bytes buf, as <<event name, capability>>, in order
NegotiationFrames(buf) ==
    LET s == SelectSeq(splitIACR(buf), LAMBDA x : At(x, 1) \in NegCmds)
    IN  [k \in 1..Len(s) |-> <<CmdName(At(s[k], 1)), At(s[k], 2)>>]

\* C12: in every step in which an endpoint receives bytes and runs the
\* frame loop on them, the raw events 'will' / 'wont' / 'do' / 'dont' it
\* raises are exactly one per dispatched negotiation frame, named after the
\* frame's command and carrying the frame's capability, in the order of the
\* frames; this is so whether or not a call was pending for the capability
\* and whether or not the frame resolved it.
C12_RawEventPerFrame ==
    [][\A e \in Endpoints :
         Len(net'[e]) < Len(net[e])
            => LET buf == sock[e].buffer \o Delivered(e)
               IN  (At(buf, 0) = IAC /\ At(buf, 1) # IAC)
                      => Negotiations(emitted'[e]) = NegotiationFrames(buf)]_vars

\* C12 witness: a delivery at A has just dispatched a WILL frame for a
\* capability A had a call pending for: the frame resolved the call (one
\* 'enabled' event) and its raw 'will' event was raised once all the same.
C12_Witness ==
    \E c \in Caps :
        /\ Raised(emitted["A"], "enabled", c) = 1
        /\ Raised(emitted["A"], "will", c) = 1
        /\ Negotiations(emitted["A"]) = <<<<"will", c>>>>

\* ------------------------------------------------------------------------
\* C13
\* ------------------------------------------------------------------------
\* C13: whenever a step at an endpoint dispatches negotiation frames for a
\* capability c for which no call was pending, the step leaves the pending
\* table entry of c empty, settles no call for c, raises no 'enabled' and no
\* 'disabled' event for c (the frames raise their raw events only), and
\* leaves the connection open; unless the application's listener answers
\* with a call of its own (it then writes a frame), the capability map
\* entry of c is unchanged as well.
C13_UnmatchedFrameOnlyRawEvent ==
    [][\A e \in Endpoints, c \in Caps :
         (/\ NegEventsFor(emitted'[e], c) # << >>
          /\ sock[e].responders[c] = NoResponder)
            => /\ sock'[e].responders[c] = NoResponder
               /\ Len(calls'[e]) = Len(calls[e])
               /\ \A k \in 1..Len(calls[e]) :
                     calls[e][k].option = c => calls'[e][k] = calls[e][k]
               /\ Raised(emitted'[e], "enabled", c) = 0
               /\ Raised(emitted'[e], "disabled", c) = 0
               /\ closed' = closed
               /\ net'[Peer(e)] = net[Peer(e)]
                     => sock'[e].options[c] = sock[e].options[c]]_vars

\* C13 witness: a delivery at B has just dispatched a DO frame for a
\* capability B has not asked about (no call of B names it, so nothing was
\* pending), B's listener did not answer, and B's state for it is still
\* not enabled.
C13_Witness ==
    \E c \in Caps :
        /\ NegEventsFor(emitted["B"], c) = <<"do">>
        /\ \A k \in 1..Len(calls["B"]) : calls["B"][k].option # c
        /\ net["A"] = << >>
        /\ sock["B"].options[c] = "undefined"
        /\ ~closed

\* ------------------------------------------------------------------------
\* C14
\* ------------------------------------------------------------------------
\* what a response call of the command neg leaves in the capability map
ResponseState(neg) == IF neg \in {DO, WILL} THEN "true" ELSE "undefined"

\* C14: whenever the application at an endpoint makes a response call
\* do(c, true) / will(c, true) / dont(c, true) / wont(c, true) (the step
\* counts one more call, tracks no new promise and writes the command's
\* frame), then after the step the state of c is enabled for do and will
\* and not enabled for dont and wont, the state of every other capability
\* is unchanged, and the pending table is unchanged: no entry is created
\* and an entry already there for c stays.
C14_ResponseCallSetsState ==
    [][\A e \in Endpoints, neg \in NegCmds, c \in Caps :
         (/\ ncalls'[e] = ncalls[e] + 1
          /\ calls'[e] = calls[e]
          /\ net'[Peer(e)] = Append(net[Peer(e)], writeIACR(neg, c)))
            => /\ sock'[e].options =
                     [sock[e].options EXCEPT ![c] = ResponseState(neg)]
               /\ sock'[e].responders = sock[e].responders
               /\ emitted'[e] = << >>]_vars

\* C14 witness: A called do(c) and then, with that call still pending,
\* will(c, true): the two frames are on the wire in that order, the state
\* of c is enabled, and the first call's pending entry is still there.
C14_Witness ==
    \E c \in Caps :
        /\ net["B"] = <<writeIACR(DO, c), writeIACR(WILL, c)>>
        /\ ncalls["A"] = 2
        /\ Len(calls["A"]) = 1
        /\ calls["A"][1].result = "pending"
        /\ sock["A"].responders[c] = [neg |-> DO, call |-> 1]
        /\ sock["A"].options[c] = "true"

\* ------------------------------------------------------------------------
\* C16
\* ------------------------------------------------------------------------
\* the "error" events among evs
ErrorEvents(evs) == SelectSeq(evs, LAMBDA x : x.ev = "error")

\* the 'subnegotiation' events among evs that carry a GMCP payload
\* parseGMCP fails on
Undecodable(evs) ==
    SelectSeq(evs, LAMBDA x : /\ x.ev = "subnegotiation"
                              /\ x.option = GMCP
                              /\ ~parseGMCP(x.data).ok)

\* C16: whenever an endpoint with GMCP enabled dispatches a GMCP
\* sub-negotiation frame whose payload fails to decode (in a step that
\* resolves no call for GMCP and in which the application's listener makes
\* no call), the step raises one error event per
\* such frame and no 'gmcp' event, leaves the connection open and leaves
\* the GMCP state and the pending entry of GMCP unchanged.
C16_DecodeFailureReported ==
    [][\A e \in Endpoints :
         (/\ Truthy(sock[e].options[GMCP])
          /\ Raised(emitted'[e], "enabled", GMCP) = 0
          /\ Raised(emitted'[e], "disabled", GMCP) = 0
          /\ net'[Peer(e)] = net[Peer(e)]
          /\ Undecodable(emitted'[e]) # << >>
          /\ Len(Subnegotiations(emitted'[e])) = Len(Undecodable(emitted'[e])))
            => /\ Len(ErrorEvents(emitted'[e])) = Len(Undecodable(emitted'[e]))
               /\ GMCPEvents(emitted'[e]) = << >>
               /\ closed' = closed
               /\ sock'[e].options[GMCP] = sock[e].options[GMCP]
               /\ sock'[e].responders[GMCP] = sock[e].responders[GMCP]]_vars

C20_NoSpaceFails ==
    \A k \in 1..Len(decodes) :
        (\A j \in 1..Len(decodes[k].payload) : decodes[k].payload[j] # SPACE)
            => ~decodes[k].result.ok

\* ------------------------------------------------------------------------
\* C22
\* ------------------------------------------------------------------------
\* a chunk that is one sub-negotiation frame for GMCP: 255, 250, 201, a
\* payload without an escape byte, 255, 240
IsOneGMCPFrame(f) ==
    /\ Len(f) >= 5
    /\ slice(f, 0, 3) = <<IAC, SB, GMCP>>
    /\ slice(f, Len(f) - 2, Len(f)) = <<IAC, SE>>
    /\ \A k \in 4..(Len(f) - 2) : f[k] # IAC

\* C22: on a Socket whose GMCP option is not enabled, no writeGMCP call has
\* written anything and every call has returned false; on a Socket whose
\* GMCP option is enabled, every call has written exactly one chunk, which
\* is one sub-negotiation frame for capability 201.
C22_SentOnlyIfEnabled ==
    IF Truthy(options[GMCP])
    THEN /\ Len(written) = Len(sent)
         /\ \A k \in 1..Len(written) : IsOneGMCPFrame(written[k])
    ELSE /\ written = << >>
         /\ \A k \in 1..Len(sent) : ~sent[k].returned

\* C22 witness: two writeGMCP calls were made on a Socket whose GMCP option
\* is false; nothing was written.
C22_Witness ==
    /\ options[GMCP] = "false"
    /\ Len(sent) = 2
    /\ written = << >>

\* ------------------------------------------------------------------------
\* C29
\* ------------------------------------------------------------------------
\* C29: whenever the application at an endpoint makes a call without
\* asResponse for a capability c that has a pending entry, the call's
\* frame is written to the peer as one chunk, the call is rejected, the
\* Socket (capability map, pending table, accumulator) is what it was, no
\* event is raised, the connection is not closed and the calls made before
\* are as they were.
C29_SecondRequestWrittenAndRejected ==
    [][\A e \in Endpoints, c \in Caps :
         LET n == Len(calls'[e])
         IN  (/\ sock[e].responders[c] # NoResponder
              /\ n = Len(calls[e]) + 1
              /\ calls'[e][n].option = c)
                => /\ calls'[e][n].result = "rejected"
                   /\ net'[Peer(e)] =
                         Append(net[Peer(e)], writeIACR(calls'[e][n].neg, c))
                   /\ sock'[e] = sock[e]
                   /\ emitted'[e] = << >>
                   /\ closed' = closed
                   /\ SubSeq(calls'[e], 1, n - 1) = calls[e]]_vars

\* C29 witness: A called do(c) and then, with that call pending, will(c):
\* both frames are on the wire, the second call is rejected and the
\* pending entry is that of the first.
C29_Witness ==
    \E c \in Caps :
        /\ Len(calls["A"]) = 2
        /\ calls["A"][1].result = "pending"
        /\ calls["A"][2] = [neg |-> WILL, option |-> c, response |-> FALSE,
                            result |-> "rejected"]
        /\ net["B"] = <<writeIACR(DO, c), writeIACR(WILL, c)>>
        /\ sock["A"].responders[c] = [neg |-> DO, call |-> 1]

\* ------------------------------------------------------------------------
\* C30
\* ------------------------------------------------------------------------
\* C30: at every endpoint and for every capability c,
\* (1) a call without asResponse for c made while no entry is pending
\*     writes its frame to the peer as one chunk, registers the pending
\*     entry of that call, is itself unsettled and leaves the capability
\*     map as it was;
\* (2) while an entry for c is pending, a step that dispatches no
\*     negotiation frame for c leaves the call unsettled and the entry in
\*     place, and leaves the state of c as it was unless the step is a
\*     call of the application;
\* (3) a step that settles the pending call dispatches a negotiation frame
\*     for c and settles the call with a boolean: true exactly when
\*     'enabled' is raised for c, false exactly when 'disabled' is, and,
\*     when no listener answers in the step, true exactly when the state
\*     of c after the step is enabled.
C30_PendingUntilReply ==
    [][\A e \in Endpoints, c \in Caps :
         LET r == sock[e].responders[c]
             n == Len(calls'[e])
             evs == NegEventsFor(emitted'[e], c)
         IN  /\ (/\ r = NoResponder
                 /\ n = Len(calls[e]) + 1
                 /\ calls'[e][n].option = c)
                   => /\ calls'[e][n].result = "pending"
                      /\ sock'[e].responders[c] =
                            [neg |-> calls'[e][n].neg, call |-> n]
                      /\ net'[Peer(e)] =
                            Append(net[Peer(e)], writeIACR(calls'[e][n].neg, c))
                      /\ sock'[e].options = sock[e].options
             /\ (r # NoResponder /\ evs = << >>)
                   => /\ calls'[e][r.call].result = "pending"
                      /\ sock'[e].responders[c] = r
                      /\ (ncalls'[e] = ncalls[e])
                            => (sock'[e].options[c] = sock[e].options[c])
             /\ (r # NoResponder /\ calls'[e][r.call].result # "pending")
                   => /\ evs # << >>
                      /\ calls'[e][r.call].result \in {"true", "false"}
                      /\ (calls'[e][r.call].result = "true")
                            <=> (Raised(emitted'[e], "enabled", c) = 1)
                      /\ (calls'[e][r.call].result = "false")
                            <=> (Raised(emitted'[e], "disabled", c) = 1)
                      /\ (net'[Peer(e)] = net[Peer(e)])
                            => ((calls'[e][r.call].result = "true")
                                  <=> Truthy(sock'[e].options[c]))]_vars

\* C30 witness: A called dont(ECHO); B's WONT ECHO has been dispatched at
\* A, the call has resolved to false and the state of ECHO is not enabled.
C30_Witness ==
    /\ calls["A"] = <<[neg |-> DONT, option |-> ECHO, response |-> FALSE,
                       result |-> "false"]>>
    /\ NegEventsFor(emitted["A"], ECHO) = <<"wont">>
    /\ Raised(emitted["A"], "disabled", ECHO) = 1
    /\ ~Truthy(sock["A"].options[ECHO])
    /\ sock["A"].responders[ECHO] = NoResponder

\* ------------------------------------------------------------------------
\* C31
\* ------------------------------------------------------------------------
\* the event that answers the pending command neg in kind
Reply(neg) ==
    CASE neg = DO -> "will"
      [] neg = DONT -> "wont"
      [] neg = WILL -> "do"
      [] neg = WONT -> "dont"

\* C31: at every endpoint and for every capability c, whatever the state
\* of c is, a step that dispatches, first among the negotiation frames for
\* c, the reply in kind to the pending request (WILL for do, DO for will,
\* WONT for dont, DONT for wont) resolves the request, with true and
\* 'enabled' for do and will, with false and 'disabled' for dont and wont,
\* and, when no listener answers in the step, leaves c enabled for do and
\* will and not enabled for dont and wont; the pending entry is cleared;
\* and whenever no entry is pending for c, also after a resolution, a
\* request for c is registered and pending.
C31_NoTerminalState ==
    [][\A e \in Endpoints, c \in Caps :
         LET r == sock[e].responders[c]
             n == Len(calls'[e])
             evs == NegEventsFor(emitted'[e], c)
             on == r.neg \in {DO, WILL}
         IN  /\ (r # NoResponder /\ evs # << >> /\ evs[1] = Reply(r.neg))
                   => /\ calls'[e][r.call].result = IF on THEN "true" ELSE "false"
                      /\ Raised(emitted'[e], IF on THEN "enabled" ELSE "disabled", c) = 1
                      /\ (net'[Peer(e)] = net[Peer(e)])
                            => (Truthy(sock'[e].options[c]) <=> on)
                      /\ sock'[e].responders[c] = NoResponder
             /\ (/\ r = NoResponder
                 /\ n = Len(calls[e]) + 1
                 /\ calls'[e][n].option = c)
                   => /\ calls'[e][n].result = "pending"
                      /\ sock'[e].responders[c].call = n]_vars

\* C31 witness: A's first request, do(ECHO), was answered by WILL ECHO and
\* resolved to true; a later request, dont(ECHO), was registered, answered
\* by WONT ECHO and has now resolved to false, leaving ECHO not enabled and
\* no entry pending.
C31_Witness ==
    /\ Len(calls["A"]) >= 3
    /\ calls["A"][1] = [neg |-> DO, option |-> ECHO, response |-> FALSE,
                        result |-> "true"]
    /\ calls["A"][3] = [neg |-> DONT, option |-> ECHO, response |-> FALSE,
                        result |-> "false"]
    /\ NegEventsFor(emitted["A"], ECHO) = <<"wont">>
    /\ ~Truthy(sock["A"].options[ECHO])
    /\ sock["A"].responders[ECHO] = NoResponder

\* ------------------------------------------------------------------------
\* C33
\* ------------------------------------------------------------------------
\* nothing is on its way between the endpoints: no chunk is undelivered and
\* no byte is held in an accumulator
NothingInFlight ==
    \A e \in Endpoints : net[e] = << >> /\ sock[e].buffer = << >>

\* C33 as stated: when B has only answered in its listeners (will or wont
\* on DO, wont on DONT) and made no call of its own, nothing is in flight
\* and A has no request pending for c, then c is enabled at A exactly when
\* it is enabled at B.
C33_EndpointsAgree ==
    \A c \in Caps :
        (/\ ncalls["B"] = 0
         /\ NothingInFlight
         /\ sock["A"].responders[c] = NoResponder)
            => (Truthy(sock["A"].options[c]) <=> Truthy(sock["B"].options[c]))

\* ------------------------------------------------------------------------
\* Two connected first-revision Sockets (index.ts 273-570)
\* ------------------------------------------------------------------------
\* calls of do / dont an application makes
MaxKicks == 2

\* the option matrices with at least one key
ResendOptions == {o \in InitOptions \cup GMCPOptions : ObjectKeys(o) # << >>}

\* a first-revision Socket as constructed with the option matrix o
NewSocket1(o) == [options |-> o, buffer |-> << >>]

ResendStart ==
    /\ sock \in [Endpoints -> {NewSocket1(o) : o \in ResendOptions}]
    /\ calls = [e \in Endpoints |-> << >>]
    /\ net = [e \in Endpoints |-> << >>]
    /\ emitted = [e \in Endpoints |-> << >>]
    /\ ncalls = [e \in Endpoints |-> 0]
    /\ closed = FALSE

\* the application at e calls do(key) or dont(key) (index.ts 453-464): the
\* option is set and the command written
DoDont(e, neg, key) ==
    /\ ncalls[e] < MaxKicks
    /\ sock' = [sock EXCEPT ![e].options[key] =
                   IF neg = DO THEN "true" ELSE "undefined"]
    /\ net' = [net EXCEPT ![Peer(e)] = Append(@, writeIAC(neg, key))]
    /\ emitted' = [x \in Endpoints |-> << >>]
    /\ ncalls' = [ncalls EXCEPT ![e] = @ + 1]
    /\ UNCHANGED <<calls, closed>>
    /\ UNCHANGED framerVars
    /\ UNCHANGED gmcpVars

\* the "data" handler of e (index.ts 298-382) receives the oldest chunk
\* written by the peer: framing, then the loop over the keys of the option
\* matrix; what the loop writes reaches the peer as one chunk
Receive(e) ==
    /\ net[e] # << >>
    /\ LET f == Frame(sock[e].buffer \o Head(net[e]), sock[e].options)
           r == Resend(ObjectKeys(sock[e].options), sock[e].options, << >>)
       IN  /\ sock' = [sock EXCEPT ![e] =
                          [options |-> r.options, buffer |-> f.buffer]]
           /\ emitted' = [x \in Endpoints |->
                             IF x = e THEN f.events ELSE << >>]
           /\ net' = [net EXCEPT
                        ![e] = Tail(@),
                        ![Peer(e)] = IF r.written = << >> THEN @
                                     ELSE Append(@, r.written)]
    /\ UNCHANGED <<calls, ncalls, closed>>
    /\ UNCHANGED framerVars
    /\ UNCHANGED gmcpVars

\* ------------------------------------------------------------------------
\* C34
\* ------------------------------------------------------------------------
\* no chunk is on its way between the endpoints
Quiet == \A e \in Endpoints : net[e] = << >>

\* C34 as stated: after finitely many calls of the applications the
\* exchange of frames between the two endpoints eventually stops for good.
C34_ExchangeStops == <>[]Quiet

\* ------------------------------------------------------------------------
\* C36
\* ------------------------------------------------------------------------
\* C36: at every endpoint and for every capability c, a step raises one
\* notification for c, 'enabled' or 'disabled', if it resolves the call
\* pending for c, and none otherwise (none in a call of the application,
\* with or without asResponse); the notification of a resolution is
\* 'enabled' exactly when the state of c at that moment is enabled (the
\* state the reply in kind sets, or else the state before the step), and
\* the call resolves to true exactly when it is 'enabled'.
C36_OneNotificationPerResolution ==
    [][\A e \in Endpoints, c \in Caps :
         LET r == sock[e].responders[c]
             evs == NegEventsFor(emitted'[e], c)
             resolved == r # NoResponder /\ calls'[e][r.call].result # "pending"
             enabled == Raised(emitted'[e], "enabled", c)
             disabled == Raised(emitted'[e], "disabled", c)
         IN  /\ enabled + disabled = IF resolved THEN 1 ELSE 0
             /\ ncalls'[e] # ncalls[e] => enabled + disabled = 0
             /\ resolved
                  => /\ evs # << >>
                     /\ (enabled = 1) <=>
                           (IF evs[1] = Reply(r.neg)
                            THEN r.neg \in {DO, WILL}
                            ELSE Truthy(sock[e].options[c]))
                     /\ (calls'[e][r.call].result = "true") <=> (enabled = 1)
                     /\ (calls'[e][r.call].result = "false") <=> (disabled = 1)]_vars

\* C36 witness: A's do(c) was answered by WONT c; the call has resolved to
\* false with the one notification 'disabled'.
C36_Witness ==
    \E c \in Caps :
        /\ Len(calls["A"]) >= 1
        /\ calls["A"][1] = [neg |-> DO, option |-> c, response |-> FALSE,
                            result |-> "false"]
        /\ NegEventsFor(emitted["A"], c) = <<"wont">>
        /\ Raised(emitted["A"], "disabled", c) = 1
        /\ Raised(emitted["A"], "enabled", c) = 0

\* ------------------------------------------------------------------------
\* C37
\* ------------------------------------------------------------------------
\* the step of endpoint e has to do with capability d: it dispatches a
\* negotiation frame for d, or it is a call of the application that writes
\* a frame for d
Touches(e, d) ==
    \/ NegEventsFor(emitted'[e], d) # << >>
    \/ /\ ncalls'[e] # ncalls[e]
       /\ Len(net'[Peer(e)]) = Len(net[Peer(e)]) + 1
       /\ At(net'[Peer(e)][Len(net'[Peer(e)])], 2) = d

\* C37: at every endpoint, a step that neither dispatches a negotiation
\* frame for capability d nor is a call for d (so every request for, and
\* every dispatch of a frame for, another capability c) leaves the state
\* of d and the pending entry of d as they were, and leaves every call for
\* d as it was: none is resolved or rejected.
C37_CapabilitiesIndependent ==
    [][\A e \in Endpoints, d \in Caps :
         ~Touches(e, d)
            => /\ sock'[e].options[d] = sock[e].options[d]
               /\ sock'[e].responders[d] = sock[e].responders[d]
               /\ \A k \in 1..Len(calls[e]) :
                     calls[e][k].option = d => calls'[e][k] = calls[e][k]]_vars

\* C37 witness: A requested ECHO and then GMCP; the reply for ECHO has
\* been dispatched and has resolved the first call, and the call for GMCP
\* is pending as before with its entry in place.
C37_Witness ==
    /\ Len(calls["A"]) = 2
    /\ calls["A"][1].option = ECHO
    /\ calls["A"][1].result \in {"true", "false"}
    /\ calls["A"][2] = [neg |-> DO, option |-> GMCP, response |-> FALSE,
                        result |-> "pending"]
    /\ NegEventsFor(emitted["A"], ECHO) # << >>
    /\ NegEventsFor(emitted["A"], GMCP) = << >>
    /\ sock["A"].responders[GMCP] = [neg |-> DO, call |-> 2]

\* ------------------------------------------------------------------------
\* Specifications
\* ------------------------------------------------------------------------
\* no structured message written or decoded
GMCPIdle ==
    /\ sent = << >>
    /\ trips = << >>
    /\ decodes = << >>

\* SpecFramer: one first-revision Socket receives an inbound stream in
\* chunks; the second-revision endpoints stay as constructed.
InitFramer == FramerStart /\ NegotiationStart /\ GMCPIdle

NextFramer == \E n \in 0..Len(rest) : Feed(n)

SpecFramer == InitFramer /\ [][NextFramer]_vars

\* SpecNegotiation: two connected second-revision Sockets; the
\* first-revision Socket stays as constructed, with nothing to receive.
FramerIdle ==
    /\ wire0 = << >>
    /\ rest = << >>
    /\ cuts = << >>
    /\ buffer = << >>
    /\ options = NoOptions
    /\ events = << >>
    /\ written = << >>

InitNegotiation == FramerIdle /\ NegotiationStart /\ GMCPIdle

NextNegotiation ==
    \/ \E e \in Endpoints, neg \in NegCmds, option \in Caps,
          response \in BOOLEAN : Call(e, neg, option, response)
    \/ \E e \in Endpoints, text \in GMCPTexts : SendGMCP(e, text)
    \/ \E e \in Endpoints, k \in 1..MaxCoalesce,
          pol \in [do : DoPolicies, dont : DontPolicies] : Deliver(e, k, pol)
    \/ Close

SpecNegotiation == InitNegotiation /\ [][NextNegotiation]_vars

\* SpecExchange: the application at A makes requests (do and dont without
\* asResponse) for one capability, the application at B makes at most
\* MaxPeerCalls calls of its own and answers every DO with will or wont and
\* every DONT with wont in its listeners; the connection stays open.
MaxRequests == 5

AnswerPolicies == [do : {"will", "wont"}, dont : {"wont"}]

NextExchange ==
    \/ \E neg \in {DO, DONT} : CallWithin(MaxRequests, "A", neg, ECHO, FALSE)
    \/ \E neg \in NegCmds, response \in BOOLEAN :
          CallWithin(MaxPeerCalls, "B", neg, ECHO, response)
    \/ \E e \in Endpoints, k \in 1..MaxCoalesce, pol \in AnswerPolicies :
          Deliver(e, k, pol)

SpecExchange == InitNegotiation /\ [][NextExchange]_vars

\* SpecResend: two connected first-revision Sockets, each constructed with
\* an option in its matrix; the applications call do and dont at most
\* MaxKicks times each, and every chunk written is eventually received.
InitResend == FramerIdle /\ ResendStart /\ GMCPIdle

NextResend ==
    \/ \E e \in Endpoints, neg \in {DO, DONT}, key \in OptKeys :
          DoDont(e, neg, key)
    \/ \E e \in Endpoints : Receive(e)

SpecResend ==
    /\ InitResend
    /\ [][NextResend]_vars
    /\ WF_vars(\E e \in Endpoints : Receive(e))

\* SpecGMCP: a first-revision Socket that receives nothing writes
\* structured messages, and the codec functions are applied to messages
\* and payloads; the second-revision endpoints stay as constructed.
InitGMCP ==
    /\ wire0 = << >>
    /\ rest = << >>
    /\ cuts = << >>
    /\ buffer = << >>
    /\ options \in GMCPOptions
    /\ events = << >>
    /\ written = << >>
    /\ NegotiationStart
    /\ GMCPIdle

NextGMCP ==
    \/ \E packages \in Packages, data \in JSONValues, flushed \in BOOLEAN :
          WriteGMCP(packages, data, flushed)
    \/ \E packages \in Packages, data \in JSONValues :
          \E text \in JSONTexts(data) : RoundTrip(packages, data, text)
    \/ \E payload \in DecodeInputs : Decode(payload)

SpecGMCP == InitGMCP /\ [][NextGMCP]_vars

====
